---- MODULE Spec2Model ----
(***************************************************************************)
(* A model of models/dns.go of dnscontrol: the RecordConfig <-> dns.RR     *)
(* codec (RR, RRToRecord), Records.Grouped, DomainConfig.Copy /            *)
(* RecordConfig.Copy (copyObj over encoding/gob) and InterfaceToIP.        *)
(*                                                                         *)
(* Text is modelled as a sequence of one-character strings, so that        *)
(* TrimSuffix, ToLower, label splitting, number formatting and parsing are *)
(* computed character by character.                                        *)
(*                                                                         *)
(* There is one specification per operation: SpecCodec (RR, RRToRecord),   *)
(* SpecGroup (Grouped), SpecCopy (Copy, followed by the caller's           *)
(* mutations) and SpecIP (InterfaceToIP).  Each draws the arguments in its *)
(* initial state and runs the calls as actions.                            *)
(***************************************************************************)
EXTENDS Integers, Sequences, FiniteSets, TLC

VARIABLES
    pc,        \* position of the scenario being run
    foldCase,  \* whether the linked miekg/dns compares labels case-insensitively
    r,         \* codec: the RecordConfig given to RR()
    origin,    \* codec: the zone origin given to RRToRecord
    rr,        \* codec: the dns.RR (NilRR when none)
    fatal,     \* codec: log.Fatalf was called (the process exited)
    rc,        \* codec: the *RecordConfig RRToRecord returned (NilRC when nil)
    err,       \* codec: the error RRToRecord returned ("" when nil)
    recs,      \* group: the Records slice
    m,         \* group: the map Grouped returned
    heap,      \* copy: the allocated objects, by address
    src,       \* copy: address of the source object
    cpy,       \* copy: address of the object Copy returned (0 before the call)
    cerr,      \* copy: the error Copy returned ("" when nil, "none" before the call)
    steps,     \* copy: number of mutations applied after Copy
    last,      \* copy: the object the last step mutated ("src", "cpy" or "none")
    i,         \* ip: the interface{} value given to InterfaceToIP
    ip,        \* ip: the net.IP returned (<<>> when nil)
    iperr      \* ip: the error returned ("" when nil)

vars == <<pc, foldCase, r, origin, rr, fatal, rc, err, recs, m,
          heap, src, cpy, cerr, steps, last, i, ip, iperr>>

codecVars == <<r, origin, rr, fatal, rc, err>>
groupVars == <<recs, m>>
copyVars == <<heap, src, cpy, cerr, steps, last>>
ipVars == <<i, ip, iperr>>

-----------------------------------------------------------------------------
(* Bounds of the model.                                                    *)

\* most labels in a short record name or a wire owner name below the origin
MaxLabels == 2
\* most labels in a zone origin
MaxOriginLabels == 1
\* longest Records slice given to Grouped
MaxRecs == 3
\* most mutations applied after a Copy
MaxSteps == 2
\* most records in the Records slice of a DomainConfig
MaxDomainRecs == 2

-----------------------------------------------------------------------------
(* Text helpers (package strings / strconv).                               *)

Dot == <<".">>
At == <<"@">>

HasSuffix(s, suf) ==
    /\ Len(s) >= Len(suf)
    /\ SubSeq(s, Len(s) - Len(suf) + 1, Len(s)) = suf

TrimSuffix(s, suf) ==
    IF HasSuffix(s, suf) THEN SubSeq(s, 1, Len(s) - Len(suf)) ELSE s

ToLowerChar(c) ==
    CASE c = "A" -> "a"
      [] c = "B" -> "b"
      [] c = "D" -> "d"
      [] OTHER -> c

ToLower(s) == [k \in 1..Len(s) |-> ToLowerChar(s[k])]

Digits == <<"0", "1", "2", "3", "4", "5", "6", "7", "8", "9">>

IsDigit(c) == \E d \in 1..10 : Digits[d] = c

DigitVal(c) == (CHOOSE d \in 1..10 : Digits[d] = c) - 1

RECURSIVE FormatUint(_)
FormatUint(n) ==
    IF n < 10 THEN <<Digits[n + 1]>>
    ELSE Append(FormatUint(n \div 10), Digits[(n % 10) + 1])

RECURSIVE ParseUint(_)
\* the value of a non-empty string of digits
ParseUint(s) ==
    IF Len(s) = 1 THEN DigitVal(s[1])
    ELSE ParseUint(SubSeq(s, 1, Len(s) - 1)) * 10 + DigitVal(s[Len(s)])

AllDigits(s) == Len(s) > 0 /\ \A k \in 1..Len(s) : IsDigit(s[k])

RECURSIVE SplitOn(_, _, _, _)
\* strings.Split(s, sep) for a one-character separator, scanning from position k
SplitOn(s, sep, k, cur) ==
    IF k > Len(s) THEN <<cur>>
    ELSE IF s[k] = sep THEN <<cur>> \o SplitOn(s, sep, k + 1, <<>>)
    ELSE SplitOn(s, sep, k + 1, Append(cur, s[k]))

RECURSIVE JoinWith(_, _)
\* strings.Join(parts, sep)
JoinWith(parts, sep) ==
    IF Len(parts) = 0 THEN <<>>
    ELSE IF Len(parts) = 1 THEN parts[1]
    ELSE parts[1] \o sep \o JoinWith(Tail(parts), sep)

-----------------------------------------------------------------------------
(* Package net: IP addresses are byte sequences of length 4 or 16.         *)

V4InV6Prefix == <<0, 0, 0, 0, 0, 0, 0, 0, 0, 0, 255, 255>>

\* IP.To4: the 4-byte form of an IPv4 address, <<>> (nil) otherwise
To4(a) ==
    IF Len(a) = 4 THEN a
    ELSE IF Len(a) = 16 /\ SubSeq(a, 1, 12) = V4InV6Prefix THEN SubSeq(a, 13, 16)
    ELSE <<>>

\* the textual IPv6 literals the model knows, and the address they all denote
V6Canon == <<"2", "0", "0", "1", ":", "d", "b", "8", ":", ":", "1">>
V6Upper == <<"2", "0", "0", "1", ":", "D", "B", "8", ":", ":", "1">>
V6Full == <<"2", "0", "0", "1", ":", "d", "b", "8", ":", "0", ":", "0", ":", "0",
            ":", "0", ":", "0", ":", "1">>
V6Addr == <<32, 1, 13, 184, 0, 0, 0, 0, 0, 0, 0, 0, 0, 0, 0, 1>>

\* s is an IPv4 literal: four decimal fields of at most 255 (the inputs of the
\* model have no fields with leading zeros, which Go releases treat differently)
IsIPv4Literal(s) ==
    LET f == SplitOn(s, ".", 1, <<>>)
    IN /\ Len(f) = 4
       /\ \A k \in 1..4 : AllDigits(f[k]) /\ Len(f[k]) <= 3 /\ ParseUint(f[k]) <= 255

\* net.ParseIP: a 16-byte address, or <<>> (nil) when s is no IP literal.
\* IPv4 literals are parsed digit by digit; IPv6 literals by table.
ParseIP(s) ==
    IF IsIPv4Literal(s)
    THEN LET f == SplitOn(s, ".", 1, <<>>)
         IN V4InV6Prefix \o [k \in 1..4 |-> ParseUint(f[k])]
    ELSE IF s \in {V6Canon, V6Upper, V6Full} THEN V6Addr
    ELSE <<>>

\* IP.String: dotted decimal for IPv4, the canonical (lower-case, compressed)
\* text for IPv6, "<nil>" for the nil address
IPString(a) ==
    IF Len(a) = 0 THEN <<"<", "n", "i", "l", ">">>
    ELSE IF To4(a) # <<>>
    THEN JoinWith([k \in 1..4 |-> FormatUint(To4(a)[k])], Dot)
    ELSE IF a = V6Addr THEN V6Canon
    ELSE <<"?">>

-----------------------------------------------------------------------------
(* Package github.com/miekg/dns and dnsutil, as far as dns.go uses them.   *)

TA == <<"A">>
TAAAA == <<"A", "A", "A", "A">>
TCNAME == <<"C", "N", "A", "M", "E">>
TMX == <<"M", "X">>
TNS == <<"N", "S">>
TPTR == <<"P", "T", "R">>
TSOA == <<"S", "O", "A">>
TTXT == <<"T", "X", "T">>
TSRV == <<"S", "R", "V">>
\* a type name the wire library does not know
TFOO == <<"F", "O", "O">>
\* a known type name in the wrong case
Ta == <<"a">>

TypeMX == 15
TypeTXT == 16
ClassINET == 1

\* dns.StringToType, restricted to the types of the model
StringToType ==
    (TA :> 1) @@ (TNS :> 2) @@ (TCNAME :> 5) @@ (TSOA :> 6) @@ (TPTR :> 12)
    @@ (TMX :> TypeMX) @@ (TTXT :> TypeTXT) @@ (TAAAA :> 28) @@ (TSRV :> 33)

\* dns.TypeToString; the empty string for a code that is no key of the map
TypeToString(code) ==
    IF \E t \in DOMAIN StringToType : StringToType[t] = code
    THEN CHOOSE t \in DOMAIN StringToType : StringToType[t] = code
    ELSE <<>>

IsFqdn(s) == Len(s) > 0 /\ s[Len(s)] = "."

Fqdn(s) == IF IsFqdn(s) THEN s ELSE s \o Dot

\* the labels of a fully-qualified name (dns.Split gives their offsets);
\* the root has none
SplitLabels(s) ==
    IF s = Dot THEN <<>>
    ELSE LET parts == SplitOn(s, ".", 1, <<>>)
         IN SubSeq(parts, 1, Len(parts) - 1)

\* Releases of miekg/dns differ in whether CompareDomainName folds case; the
\* variable foldCase is chosen freely at the start, so both are covered.
LabelEq(a, b, fold) == IF fold THEN ToLower(a) = ToLower(b) ELSE a = b

RECURSIVE CommonLabels(_, _, _)
CommonLabels(l1, l2, fold) ==
    IF Len(l1) = 0 \/ Len(l2) = 0 THEN 0
    ELSE IF LabelEq(l1[Len(l1)], l2[Len(l2)], fold)
    THEN 1 + CommonLabels(SubSeq(l1, 1, Len(l1) - 1), SubSeq(l2, 1, Len(l2) - 1), fold)
    ELSE 0

\* dns.CompareDomainName: the number of labels two names share from the right
CompareDomainName(s1, s2, fold) ==
    CommonLabels(SplitLabels(Fqdn(s1)), SplitLabels(Fqdn(s2)), fold)

\* dns.IsSubDomain
IsSubDomain(parent, child, fold) ==
    CompareDomainName(parent, child, fold) = Len(SplitLabels(Fqdn(parent)))

\* dnsutil.TrimDomainName
TrimDomainName(s0, origin0, fold) ==
    IF Len(s0) = 0 THEN At
    ELSE IF origin0 = Dot THEN TrimSuffix(s0, origin0)
    ELSE LET s == Fqdn(s0)
             o == Fqdn(origin0)
             slabels == SplitLabels(s)
             olabels == SplitLabels(o)
             n == CompareDomainName(s, o, fold)
         IN IF ~IsSubDomain(o, s, fold) THEN s0
            ELSE IF Len(olabels) = n /\ Len(olabels) = Len(slabels) THEN At
            ELSE IF Len(olabels) = n /\ s[1] = "." /\ Len(slabels) = Len(olabels) + 1
            THEN At
            ELSE JoinWith(SubSeq(slabels, 1, Len(slabels) - n), Dot)

\* dns.IsDomainName, as far as the model needs it: no empty label
IsDomainName(s) ==
    LET ls == SplitOn(Fqdn(s), ".", 1, <<>>)
    IN s = Dot \/ \A k \in 1..(Len(ls) - 1) : Len(ls[k]) > 0

NilRR == [kind |-> "nil"]

\* the words of a zone-file line
Fields(s) == SelectSeq(SplitOn(s, " ", 1, <<>>), LAMBDA w : Len(w) > 0)

\* an owner or target name read from a zone-file line with origin ".":
\* a relative name gets the origin appended
Absolute(name) == IF IsFqdn(name) THEN name ELSE name \o Dot

\* dns.NewRR for a line "name ttl IN type rdata" of the types of the model
\* that RR() sends through it; [ok |-> FALSE] stands for a parse error
NewRR(s) ==
    LET w == Fields(s)
        bad == [ok |-> FALSE, rr |-> NilRR]
    IN IF Len(w) # 5 \/ s[1] = " " THEN bad
       ELSE IF ~IsDomainName(w[1]) \/ ~AllDigits(w[2]) \/ w[3] # <<"I", "N">>
               \/ w[4] \notin DOMAIN StringToType THEN bad
       ELSE LET hdr == [Name |-> Absolute(w[1]), Rrtype |-> StringToType[w[4]],
                        Class |-> ClassINET, Ttl |-> ParseUint(w[2])]
                t == w[4]
                d == w[5]
            IN IF t = TA
               THEN IF To4(ParseIP(d)) = <<>> THEN bad
                    ELSE [ok |-> TRUE, rr |-> [kind |-> "A", Hdr |-> hdr, A |-> ParseIP(d)]]
               ELSE IF t = TAAAA
               THEN IF ParseIP(d) = <<>> THEN bad
                    ELSE [ok |-> TRUE, rr |-> [kind |-> "AAAA", Hdr |-> hdr, AAAA |-> ParseIP(d)]]
               ELSE IF ~IsDomainName(d) THEN bad
               ELSE IF t = TCNAME
               THEN [ok |-> TRUE, rr |-> [kind |-> "CNAME", Hdr |-> hdr, Target |-> Absolute(d)]]
               ELSE IF t = TNS
               THEN [ok |-> TRUE, rr |-> [kind |-> "NS", Hdr |-> hdr, Ns |-> Absolute(d)]]
               ELSE IF t = TPTR
               THEN [ok |-> TRUE, rr |-> [kind |-> "PTR", Hdr |-> hdr, Ptr |-> Absolute(d)]]
               ELSE bad

-----------------------------------------------------------------------------
(* models/dns.go: the record codec.                                        *)

DefaultTTL == 300

\* a nil map
NoMeta == <<>>

\* the zero RecordConfig
ZeroRecord ==
    [Type |-> <<>>, Name |-> <<>>, Target |-> <<>>, TTL |-> 0, Metadata |-> NoMeta,
     NameFQDN |-> <<>>, Priority |-> 0, Original |-> "nil"]

\* a nil *RecordConfig
NilRC == [Type |-> "nil"]

\* RR() past the lookup of the type: the header, the MX and TXT cases, and
\* the zone-file line given to dns.NewRR for every other type
EncodeKnown(x) ==
    LET rdtype == StringToType[x.Type]
        hdr == [Name |-> x.NameFQDN \o Dot, Rrtype |-> rdtype,
                Class |-> ClassINET, Ttl |-> x.TTL]
    IN IF rdtype = TypeMX
       THEN [fatal |-> FALSE,
             rr |-> [kind |-> "MX", Hdr |-> hdr, Preference |-> x.Priority,
                     Mx |-> x.Target]]
       ELSE IF rdtype = TypeTXT
       THEN [fatal |-> FALSE,
             rr |-> [kind |-> "TXT", Hdr |-> hdr, Txt |-> <<x.Target>>]]
       ELSE LET ttl == IF x.TTL = 0 THEN FormatUint(DefaultTTL)
                       ELSE FormatUint(x.TTL)
                s == x.NameFQDN \o <<" ">> \o ttl \o <<" ", "I", "N", " ">>
                     \o x.Type \o <<" ">> \o x.Target
                parsed == NewRR(s)
            IN IF ~parsed.ok THEN [fatal |-> TRUE, rr |-> NilRR]
               ELSE [fatal |-> FALSE, rr |-> parsed.rr]

\* RR() returning nil for an unknown type instead of ending the process
RRReturnsNil(x) ==
    IF x.Type \notin DOMAIN StringToType THEN [fatal |-> FALSE, rr |-> NilRR]
    ELSE EncodeKnown(x)

\* (r *RecordConfig) RR(): the dns.RR built, or fatal when log.Fatalf ended
\* the process before any value was returned
RR(x) ==
    IF x.Type \notin DOMAIN StringToType THEN [fatal |-> TRUE, rr |-> NilRR]
    ELSE EncodeKnown(x)

\* the cases of RRToRecord's type switch for the seven types it decodes
KnownPayload(w) ==
    CASE w.kind = "A" -> [ok |-> TRUE, Target |-> IPString(w.A), Priority |-> 0]
      [] w.kind = "AAAA" -> [ok |-> TRUE, Target |-> IPString(w.AAAA), Priority |-> 0]
      [] w.kind = "CNAME" -> [ok |-> TRUE, Target |-> w.Target, Priority |-> 0]
      [] w.kind = "MX" -> [ok |-> TRUE, Target |-> w.Mx, Priority |-> w.Preference]
      [] w.kind = "NS" -> [ok |-> TRUE, Target |-> w.Ns, Priority |-> 0]
      [] w.kind = "SOA" ->
            [ok |-> TRUE,
             Target |-> JoinWith(<<w.Ns, w.Mbox, FormatUint(w.Serial),
                                   FormatUint(w.Refresh), FormatUint(w.Retry),
                                   FormatUint(w.Expire), FormatUint(w.Minttl)>>, <<" ">>),
             Priority |-> 0]
      [] w.kind = "TXT" -> [ok |-> TRUE, Target |-> JoinWith(w.Txt, <<" ">>), Priority |-> 0]

SwitchKinds == {"A", "AAAA", "CNAME", "MX", "NS", "SOA", "TXT"}

\* the type switch with a default case that lets the record through
PayloadDefaulted(w) ==
    IF w.kind \in SwitchKinds THEN KnownPayload(w)
    ELSE [ok |-> TRUE, Target |-> <<>>, Priority |-> 0]

\* the Target RRToRecord's type switch extracts; ok is FALSE in the default case
Payload(w) ==
    IF w.kind \in SwitchKinds THEN KnownPayload(w)
    ELSE [ok |-> FALSE, Target |-> <<>>, Priority |-> 0]

\* the pair (rc, err) RRToRecord returns once the names are computed
Decoded(w, nameFQDN, name) ==
    LET p == Payload(w)
        out == [ZeroRecord EXCEPT
                  !.Type = TypeToString(w.Hdr.Rrtype),
                  !.NameFQDN = nameFQDN,
                  !.Name = name,
                  !.TTL = w.Hdr.Ttl,
                  !.Target = p.Target,
                  !.Priority = p.Priority]
    IN IF p.ok THEN [rc |-> out, err |-> ""]
       ELSE [rc |-> NilRC, err |-> "unimplemented zone record type"]

\* RRToRecord without the TrimSuffix of the owner name
RRToRecordKeepsDot(w, o, fold) ==
    Decoded(w, ToLower(w.Hdr.Name), ToLower(TrimDomainName(w.Hdr.Name, o, fold)))

\* RRToRecord without the ToLower of the short name
RRToRecordKeepsCase(w, o, fold) ==
    Decoded(w, ToLower(TrimSuffix(w.Hdr.Name, Dot)), TrimDomainName(w.Hdr.Name, o, fold))

\* RRToRecord(rr, origin): the pair (rc, err) returned
RRToRecord(w, o, fold) ==
    Decoded(w, ToLower(TrimSuffix(w.Hdr.Name, Dot)),
            ToLower(TrimDomainName(w.Hdr.Name, o, fold)))

-----------------------------------------------------------------------------
(* Inputs of the codec scenario.                                           *)

LabelSet == {<<"a">>, <<"A">>, <<"b">>}

\* the names of one to n labels
NamesUpTo(n) ==
    {JoinWith(ls, Dot) : ls \in UNION {[1..k -> LabelSet] : k \in 1..n}}

ShortNames == {At} \cup NamesUpTo(MaxLabels)

Origins == UNION {{o, o \o Dot} : o \in NamesUpTo(MaxOriginLabels)}

\* owner names as the wire library delivers them: fully qualified
WireNames == {n \o Dot : n \in NamesUpTo(MaxLabels + 1)}

\* the fully-qualified name of short name nm in zone o, without trailing dot
Qualify(nm, o) ==
    IF nm = At THEN TrimSuffix(o, Dot) ELSE nm \o Dot \o TrimSuffix(o, Dot)

HostAB == <<"a", ".", "b", ".">>
V4Text == <<"1", ".", "2", ".", "3", ".", "4">>

\* (Type, Target, Priority) combinations given to RR()
PayloadInputs ==
    {<<TA, V4Text, 0>>, <<TA, <<"1", ".", "2", ".", "3">>, 0>>,
     <<TAAAA, V6Canon, 0>>, <<TAAAA, V6Upper, 0>>,
     <<TCNAME, HostAB, 0>>, <<TCNAME, <<"a">>, 0>>,
     <<TNS, HostAB, 0>>,
     <<TMX, HostAB, 0>>, <<TMX, HostAB, 10>>,
     <<TTXT, <<"a", " ", "b">>, 0>>,
     <<TPTR, HostAB, 0>>,
     <<TFOO, <<"a">>, 0>>,
     <<Ta, V4Text, 0>>}

TTLInputs == {0, 7}

\* a name outside every zone of the model
Elsewhere == <<"b", "b">>

RecordInputs(o) ==
    {[ZeroRecord EXCEPT !.Type = p[1], !.Target = p[2], !.Priority = p[3],
                        !.Name = nm, !.TTL = ttl,
                        !.NameFQDN = Qualify(nm, IF inZone THEN o ELSE Elsewhere)] :
        p \in PayloadInputs, ttl \in TTLInputs, nm \in ShortNames, inZone \in BOOLEAN}

WireHeader(nm, code) == [Name |-> nm, Rrtype |-> code, Class |-> ClassINET, Ttl |-> 7]

\* resource records as a provider's zone transfer delivers them
WireInputs ==
    UNION {{[kind |-> "A", Hdr |-> WireHeader(nm, 1), A |-> <<1, 2, 3, 4>>],
            [kind |-> "AAAA", Hdr |-> WireHeader(nm, 28), AAAA |-> V6Addr],
            [kind |-> "CNAME", Hdr |-> WireHeader(nm, 5), Target |-> HostAB],
            [kind |-> "MX", Hdr |-> WireHeader(nm, TypeMX), Preference |-> 10, Mx |-> HostAB],
            [kind |-> "NS", Hdr |-> WireHeader(nm, 2), Ns |-> HostAB],
            [kind |-> "SOA", Hdr |-> WireHeader(nm, 6), Ns |-> HostAB, Mbox |-> HostAB,
             Serial |-> 1, Refresh |-> 2, Retry |-> 3, Expire |-> 4, Minttl |-> 5],
            [kind |-> "TXT", Hdr |-> WireHeader(nm, TypeTXT), Txt |-> <<<<"a">>, <<"b">>>>],
            [kind |-> "PTR", Hdr |-> WireHeader(nm, 12), Ptr |-> HostAB],
            [kind |-> "SRV", Hdr |-> WireHeader(nm, 33), Priority |-> 1, Weight |-> 2,
             Port |-> 3, Target |-> HostAB]} : nm \in WireNames}

-----------------------------------------------------------------------------
(* Values the variables of a scenario hold while another scenario runs.    *)

IdleCodec ==
    /\ foldCase = FALSE /\ r = NilRC /\ origin = <<>> /\ rr = NilRR
    /\ fatal = FALSE /\ rc = NilRC /\ err = ""

IdleGroup == recs = <<>> /\ m = <<>>

IdleCopy ==
    /\ heap = <<>> /\ src = 0 /\ cpy = 0 /\ cerr = "none"
    /\ steps = 0 /\ last = "none"

IdleIP == i = "none" /\ ip = <<>> /\ iperr = ""

-----------------------------------------------------------------------------
(* The codec scenario: a record is encoded and the result decoded, or a    *)
(* resource record received from a provider is decoded.                    *)

InitCodec ==
    /\ foldCase \in BOOLEAN
    /\ origin \in Origins
    /\ \/ /\ pc = "encode"
          /\ r \in RecordInputs(origin)
          /\ rr = NilRR
       \/ /\ pc = "decode"
          /\ r = NilRC
          /\ rr \in WireInputs
    /\ fatal = FALSE /\ rc = NilRC /\ err = ""
    /\ IdleGroup /\ IdleCopy /\ IdleIP

\* a caller runs r.RR()
Encode ==
    /\ pc = "encode"
    /\ LET res == RR(r)
       IN /\ fatal' = res.fatal
          /\ rr' = res.rr
          /\ pc' = IF res.fatal THEN "exit" ELSE "decode"
    /\ UNCHANGED <<foldCase, r, origin, rc, err>>
    /\ UNCHANGED <<groupVars, copyVars, ipVars>>

\* a caller runs RRToRecord(rr, origin)
Decode ==
    /\ pc = "decode"
    /\ IF rr.kind = "nil"
       THEN \* rr.Header() on a nil interface value panics
            /\ pc' = "panic"
            /\ UNCHANGED <<rc, err>>
       ELSE LET res == RRToRecord(rr, origin, foldCase)
            IN /\ rc' = res.rc
               /\ err' = res.err
               /\ pc' = "decoded"
    /\ UNCHANGED <<foldCase, r, origin, rr, fatal>>
    /\ UNCHANGED <<groupVars, copyVars, ipVars>>

NextCodec == Encode \/ Decode

SpecCodec == InitCodec /\ [][NextCodec]_vars

-----------------------------------------------------------------------------
(* Claims about the codec, checked under SpecCodec.                        *)

CodecTypes == {TA, TAAAA, TCNAME, TNS, TMX, TTXT}

\* the record went through RR() and the result through RRToRecord
RoundTripped == pc = "decoded" /\ r # NilRC

\* a normalized record of zone o: a type both directions cover, lower-case
\* names with NameFQDN = Name.o, and a Target in the form its type stores
\* (canonical IP text, or a fully-qualified name)
ValidRecord(x, o) ==
    /\ x.Type \in CodecTypes
    /\ x.Name = ToLower(x.Name)
    /\ x.NameFQDN = ToLower(x.NameFQDN)
    /\ x.NameFQDN = Qualify(x.Name, o)
    /\ x.Type = TA => To4(ParseIP(x.Target)) # <<>> /\ IPString(ParseIP(x.Target)) = x.Target
    /\ x.Type = TAAAA => ParseIP(x.Target) # <<>> /\ IPString(ParseIP(x.Target)) = x.Target
    /\ x.Type \in {TCNAME, TNS, TMX} => IsFqdn(x.Target)

\* C1: decoding the encoding of a valid record of a codec type reproduces
\* its Type, Name, NameFQDN and Target, and for MX its Priority.
C1_RoundTrip ==
    (RoundTripped /\ ValidRecord(r, origin)) =>
        /\ rc # NilRC
        /\ rc.Type = r.Type
        /\ rc.Name = r.Name
        /\ rc.NameFQDN = r.NameFQDN
        /\ rc.Target = r.Target
        /\ (r.Type = TMX => rc.Priority = r.Priority)

C1_Witness ==
    /\ RoundTripped /\ ValidRecord(r, origin)
    /\ r.Type = TMX /\ r.Priority = 10 /\ r.Name = <<"a">> /\ rc.Priority = 10

\* C2: the header TTL of every encoded record is DefaultTTL when the
\* record's TTL is 0 and the record's TTL otherwise, and decoding the
\* encoding of a TTL=0 record yields DefaultTTL.
C2_TTLDefaulted ==
    /\ (r # NilRC /\ pc \in {"decode", "decoded"}) =>
            rr.Hdr.Ttl = (IF r.TTL = 0 THEN DefaultTTL ELSE r.TTL)
    /\ (RoundTripped /\ rc # NilRC /\ r.TTL = 0) => rc.TTL = DefaultTTL

\* the zone's own suffix ends the short name
EndsWithZone(nm, o) ==
    LET z == TrimSuffix(o, Dot)
    IN nm = z \/ HasSuffix(nm, Dot \o z)

InZone(nm, o) ==
    LET z == Fqdn(o)
    IN /\ o = ToLower(o)
       /\ nm = z \/ HasSuffix(nm, Dot \o z)

DecodableKinds == {TA, TAAAA, TCNAME, TMX, TNS, TSOA, TTXT}

\* C8: RRToRecord returns an error and no record for a resource record of a
\* type other than A, AAAA, CNAME, MX, NS, SOA, TXT, without ending the
\* process, and a record and no error for each of those seven.
C8_DecodeErrors ==
    pc = "decoded" =>
        /\ ~fatal
        /\ TypeToString(rr.Hdr.Rrtype) \in DecodableKinds => (rc # NilRC /\ err = "")
        /\ TypeToString(rr.Hdr.Rrtype) \notin DecodableKinds => (rc = NilRC /\ err # "")

C8_Witness ==
    /\ pc = "decoded" /\ rr.kind = "SRV" /\ rc = NilRC
    /\ err = "unimplemented zone record type"

\* C9: RR() of a record whose Type the wire library does not know ends the
\* process: no resource record is built or returned, and nothing runs after.
C9_UnknownTypeFatal ==
    (r # NilRC /\ pc # "encode" /\ r.Type \notin DOMAIN StringToType) =>
        /\ fatal
        /\ pc = "exit"
        /\ rr = NilRR
        /\ rc = NilRC /\ err = ""

C9_Witness == pc = "exit" /\ fatal /\ r.Type = TFOO /\ rr = NilRR

-----------------------------------------------------------------------------
(* models/dns.go: Records.Grouped.                                         *)

RecordKey(x) == [Type |-> x.Type, Name |-> x.Name]

\* the record put in front of its group instead of appended
PrependTo(mp, key, x) ==
    [k \in DOMAIN mp \cup {key} |->
        IF k = key
        THEN <<x>> \o (IF key \in DOMAIN mp THEN mp[key] ELSE <<>>)
        ELSE mp[k]]

\* m[key] = append(m[key], x); a missing key reads as the nil slice
AppendTo(mp, key, x) ==
    [k \in DOMAIN mp \cup {key} |->
        IF k = key
        THEN Append(IF key \in DOMAIN mp THEN mp[key] ELSE <<>>, x)
        ELSE mp[k]]

RECURSIVE GroupedFrom(_, _, _)
\* the range loop of Grouped from position k on, with mp built so far
GroupedFrom(rs, k, mp) ==
    IF k > Len(rs) THEN mp
    ELSE GroupedFrom(rs, k + 1, AppendTo(mp, RecordKey(rs[k]), rs[k]))

\* (r Records) Grouped()
Grouped(rs) == GroupedFrom(rs, 1, <<>>)

\* records given to Grouped: two types, two names, two targets
GroupRecords ==
    {[ZeroRecord EXCEPT !.Type = ty, !.Name = nm, !.NameFQDN = Qualify(nm, <<"b">>),
                        !.Target = tg] :
        ty \in {TA, TMX}, nm \in {At, <<"a">>}, tg \in {V4Text, HostAB}}

InitGroup ==
    /\ pc = "group"
    /\ recs \in UNION {[1..n -> GroupRecords] : n \in 0..MaxRecs}
    /\ m = <<>>
    /\ IdleCodec /\ IdleCopy /\ IdleIP

\* a caller runs recs.Grouped()
Group ==
    /\ pc = "group"
    /\ m' = Grouped(recs)
    /\ pc' = "grouped"
    /\ UNCHANGED recs
    /\ UNCHANGED <<foldCase, codecVars, copyVars, ipVars>>

NextGroup == Group

SpecGroup == InitGroup /\ [][NextGroup]_vars

\* the records of rs whose key is key, in the order of rs
WithKey(rs, key) == SelectSeq(rs, LAMBDA x : RecordKey(x) = key)

\* C7: the map Grouped returns has exactly the keys of the input records,
\* and the group of each key is the input's records of that key in input
\* order, duplicates kept; no group is empty.
C7_GroupedStable ==
    pc = "grouped" =>
        /\ DOMAIN m = {RecordKey(recs[k]) : k \in 1..Len(recs)}
        /\ \A key \in DOMAIN m : m[key] = WithKey(recs, key) /\ Len(m[key]) > 0

C7_Witness ==
    /\ pc = "grouped" /\ Len(recs) = 3
    /\ recs[1] = recs[3] /\ RecordKey(recs[2]) = RecordKey(recs[1]) /\ recs[2] # recs[1]
    /\ m[RecordKey(recs[1])] = recs

-----------------------------------------------------------------------------
(* models/dns.go: InterfaceToIP.                                           *)

\* A float64 is modelled by the two 16-bit halves of its integral part
\* (value = hi * 65536 + lo, so 3232235521 is hi = 49320, lo = 1), whether a
\* fraction follows, and whether the value lies in the range of uint32.

\* transform.UintToIP: the four bytes of u, most significant first
UintToIP(u) == <<u.hi \div 256, u.hi % 256, u.lo \div 256, u.lo % 256>>

\* the results uint32(v) can have: the fraction is dropped; outside the range
\* of uint32 the result depends on the platform
Uint32Of(v) ==
    IF v.range = "in" THEN {[hi |-> v.hi, lo |-> v.lo]}
    ELSE {[hi |-> 0, lo |-> 0], [hi |-> 65535, lo |-> 65535], [hi |-> v.hi, lo |-> v.lo]}

\* InterfaceToIP without the nil check of the parsed address
InterfaceToIPUnchecked(v, u) ==
    IF v.type = "float64" THEN [ip |-> UintToIP(u), err |-> ""]
    ELSE IF v.type = "string" THEN [ip |-> ParseIP(v.val), err |-> ""]
    ELSE [ip |-> <<>>, err |-> "Cannot convert type to ip."]

\* InterfaceToIP(i) when uint32(v) gave u: the pair (ip, err) returned
InterfaceToIP(v, u) ==
    IF v.type = "float64" THEN [ip |-> UintToIP(u), err |-> ""]
    ELSE IF v.type = "string"
    THEN IF ParseIP(v.val) # <<>> THEN [ip |-> ParseIP(v.val), err |-> ""]
         ELSE [ip |-> <<>>, err |-> "is not a valid ip address"]
    ELSE [ip |-> <<>>, err |-> "Cannot convert type to ip."]

NoValue == [type |-> "nil", hi |-> 0, lo |-> 0, frac |-> FALSE, range |-> "in", val |-> <<>>]

FloatInputs ==
    {[NoValue EXCEPT !.type = "float64", !.hi = a * 256 + b, !.lo = c * 256 + d,
                     !.frac = f, !.range = g] :
        a \in {0, 192, 255}, b \in {0, 168}, c \in {0, 255}, d \in {0, 1, 255},
        f \in BOOLEAN, g \in {"in"}}
    \cup {[NoValue EXCEPT !.type = "float64", !.hi = 1, !.lo = 2, !.range = g] :
            g \in {"below", "above"}}

V4Private == <<"1", "9", "2", ".", "1", "6", "8", ".", "0", ".", "1">>

StringInputs ==
    {[NoValue EXCEPT !.type = "string", !.val = s] :
        s \in {V4Text, V4Private, V6Canon, V6Upper, V6Full, <<"1", ".", "2", ".", "3">>,
               <<"2", "5", "6", ".", "1", ".", "1", ".", "1">>, <<"a">>, <<>>}}

OtherInputs ==
    {[NoValue EXCEPT !.type = ty] :
        ty \in {"bool", "int", "uint32", "nil", "[]interface {}"}}

InitIP ==
    /\ pc = "coerce"
    /\ i \in FloatInputs \cup StringInputs \cup OtherInputs
    /\ ip = <<>> /\ iperr = ""
    /\ IdleCodec /\ IdleGroup /\ IdleCopy

\* a caller runs InterfaceToIP(i)
Coerce ==
    /\ pc = "coerce"
    /\ \E u \in Uint32Of(i) :
          LET res == InterfaceToIP(i, u)
          IN ip' = res.ip /\ iperr' = res.err
    /\ pc' = "coerced"
    /\ UNCHANGED i
    /\ UNCHANGED <<foldCase, codecVars, groupVars, copyVars>>

NextIP == Coerce

SpecIP == InitIP /\ [][NextIP]_vars

\* the number is an unsigned 32-bit integer
IsUint32(v) == v.type = "float64" /\ ~v.frac /\ v.range = "in"

V6Literals == {V6Canon, V6Upper, V6Full}

-----------------------------------------------------------------------------
(* models/dns.go: DomainConfig.Copy, RecordConfig.Copy and copyObj.        *)
(*                                                                         *)
(* Objects live in a heap, a sequence of cells indexed by address; 0 is    *)
(* nil.  A struct is a cell whose map and slice fields hold the address of *)
(* a map cell or of the slice's array cell; an array cell holds the        *)
(* addresses of its elements (the slices are of pointers).  encoding/gob   *)
(* moves strings as opaque values, so text is atomic here.                 *)

ZeroDomainConfig ==
    [kind |-> "dc", Name |-> "", Registrar |-> "", DNSProviders |-> 0, Metadata |-> 0,
     Records |-> 0, Nameservers |-> 0, KeepUnknown |-> FALSE]

ZeroRecordConfig ==
    [kind |-> "rec", Type |-> "", Name |-> "", Target |-> "", TTL |-> 0, Metadata |-> 0,
     NameFQDN |-> "", Priority |-> 0, Original |-> "nil"]

ZeroNameserver == [kind |-> "ns", Name |-> "", Target |-> ""]

MapOf(h, a) == IF a = 0 THEN {} ELSE h[a].kv

ElemsOf(h, a) == IF a = 0 THEN <<>> ELSE h[a].elems

\* the value of the record at address a, its map followed
RecordValue(h, a) ==
    [Type |-> h[a].Type, Name |-> h[a].Name, Target |-> h[a].Target, TTL |-> h[a].TTL,
     Metadata |-> MapOf(h, h[a].Metadata), NameFQDN |-> h[a].NameFQDN,
     Priority |-> h[a].Priority, Original |-> h[a].Original]

NameserverValue(h, a) == [Name |-> h[a].Name, Target |-> h[a].Target]

\* the value of the domain at address a, its maps, slices and pointers followed
DomainValue(h, a) ==
    [Name |-> h[a].Name, Registrar |-> h[a].Registrar,
     DNSProviders |-> MapOf(h, h[a].DNSProviders),
     Metadata |-> MapOf(h, h[a].Metadata),
     Records |-> [k \in 1..Len(ElemsOf(h, h[a].Records)) |->
                    RecordValue(h, ElemsOf(h, h[a].Records)[k])],
     Nameservers |-> [k \in 1..Len(ElemsOf(h, h[a].Nameservers)) |->
                        NameserverValue(h, ElemsOf(h, h[a].Nameservers)[k])],
     KeepUnknown |-> h[a].KeepUnknown]

Value(h, a) == IF h[a].kind = "dc" THEN DomainValue(h, a) ELSE RecordValue(h, a)

\* what gob transmits of a map field: a nil map is omitted, an empty one sent
MapMessage(h, a) == [sent |-> a # 0, kv |-> MapOf(h, a)]

\* a record transmitted as the JSON tags would have it: NameFQDN left out
RecordMessageByTags(h, a) ==
    [kind |-> "rec", Type |-> h[a].Type, Name |-> h[a].Name, Target |-> h[a].Target,
     TTL |-> h[a].TTL, Metadata |-> MapMessage(h, h[a].Metadata),
     NameFQDN |-> "", Priority |-> h[a].Priority]

\* what gob transmits of a record: every exported field; a non-nil Original
\* is of a type not registered with gob, which fails the encoding
RecordMessage(h, a) ==
    [kind |-> "rec", Type |-> h[a].Type, Name |-> h[a].Name, Target |-> h[a].Target,
     TTL |-> h[a].TTL, Metadata |-> MapMessage(h, h[a].Metadata),
     NameFQDN |-> h[a].NameFQDN, Priority |-> h[a].Priority]

NameserverMessage(h, a) == [kind |-> "ns", Name |-> h[a].Name, Target |-> h[a].Target]

\* what gob transmits of the Records slice: an empty slice is omitted
RecordsMessage(h, a) ==
    [sent |-> Len(ElemsOf(h, a)) > 0,
     elems |-> [k \in 1..Len(ElemsOf(h, a)) |-> RecordMessage(h, ElemsOf(h, a)[k])]]

\* what gob transmits of the Nameservers slice: an empty slice is omitted
NameserversMessage(h, a) ==
    [sent |-> Len(ElemsOf(h, a)) > 0,
     elems |-> [k \in 1..Len(ElemsOf(h, a)) |-> NameserverMessage(h, ElemsOf(h, a)[k])]]

DomainMessage(h, a) ==
    [kind |-> "dc", Name |-> h[a].Name, Registrar |-> h[a].Registrar,
     DNSProviders |-> MapMessage(h, h[a].DNSProviders),
     Metadata |-> MapMessage(h, h[a].Metadata),
     Records |-> RecordsMessage(h, h[a].Records),
     Nameservers |-> NameserversMessage(h, h[a].Nameservers),
     KeepUnknown |-> h[a].KeepUnknown]

\* the records reachable from the object at address a
RecordsUnder(h, a) ==
    IF h[a].kind = "rec" THEN {a}
    ELSE {ElemsOf(h, h[a].Records)[k] : k \in 1..Len(ElemsOf(h, h[a].Records))}

\* enc.Encode(input): the message, or the error gob reports
GobEncode(h, a) ==
    IF \E x \in RecordsUnder(h, a) : h[x].Original # "nil"
    THEN [err |-> "gob: type not registered for interface", msg |-> <<>>]
    ELSE [err |-> "",
          msg |-> IF h[a].kind = "dc" THEN DomainMessage(h, a) ELSE RecordMessage(h, a)]

\* the heap after a map field is decoded, and the address the field gets
DecodeMap(h, mm) ==
    IF mm.sent THEN [heap |-> Append(h, [kind |-> "map", kv |-> mm.kv]), addr |-> Len(h) + 1]
    ELSE [heap |-> h, addr |-> 0]

\* the heap after the record message is decoded into the cell at out
DecodeRecord(h, msg, out) ==
    LET md == DecodeMap(h, msg.Metadata)
    IN [md.heap EXCEPT ![out] =
            [h[out] EXCEPT !.Type = msg.Type, !.Name = msg.Name, !.Target = msg.Target,
                           !.TTL = msg.TTL, !.Metadata = md.addr,
                           !.NameFQDN = msg.NameFQDN, !.Priority = msg.Priority]]

DecodeNameserver(h, msg, out) ==
    [h EXCEPT ![out] = [h[out] EXCEPT !.Name = msg.Name, !.Target = msg.Target]]

\* the heap after a new element is allocated and the message decoded into it
DecodeElem(h, msg) ==
    IF msg.kind = "rec" THEN DecodeRecord(Append(h, ZeroRecordConfig), msg, Len(h) + 1)
    ELSE DecodeNameserver(Append(h, ZeroNameserver), msg, Len(h) + 1)

RECURSIVE DecodeElems(_, _, _, _)
\* the elements of a slice message from position k on, each decoded into a
\* new cell; addrs are the addresses of those decoded so far
DecodeElems(h, msgs, k, addrs) ==
    IF k > Len(msgs) THEN [heap |-> h, addrs |-> addrs]
    ELSE DecodeElems(DecodeElem(h, msgs[k]), msgs, k + 1, Append(addrs, Len(h) + 1))

\* the heap after a slice field is decoded, and the address of its array
DecodeSlice(h, sm) ==
    IF ~sm.sent THEN [heap |-> h, addr |-> 0]
    ELSE LET d == DecodeElems(h, sm.elems, 1, <<>>)
         IN [heap |-> Append(d.heap, [kind |-> "arr", elems |-> d.addrs]),
             addr |-> Len(d.heap) + 1]

DecodeDomain(h, msg, out) ==
    LET dp == DecodeMap(h, msg.DNSProviders)
        md == DecodeMap(dp.heap, msg.Metadata)
        rs == DecodeSlice(md.heap, msg.Records)
        ns == DecodeSlice(rs.heap, msg.Nameservers)
    IN [ns.heap EXCEPT ![out] =
            [h[out] EXCEPT !.Name = msg.Name, !.Registrar = msg.Registrar,
                           !.DNSProviders = dp.addr, !.Metadata = md.addr,
                           !.Records = rs.addr, !.Nameservers = ns.addr,
                           !.KeepUnknown = msg.KeepUnknown]]

\* dec.Decode(output): the heap after the message is decoded into out
GobDecode(h, msg, out) ==
    IF msg.kind = "dc" THEN DecodeDomain(h, msg, out) ELSE DecodeRecord(h, msg, out)

\* copyObj as the struct assignment *output = *input: maps, arrays and
\* pointed-to elements stay shared
CopyObjShallow(h, input, output) ==
    [heap |-> [h EXCEPT ![output] = h[input]], err |-> ""]

\* copyObj reporting the encoding error only after the plain fields went over
CopyObjPartial(h, input, output) ==
    [heap |-> [h EXCEPT ![output].Name = h[input].Name],
     err |-> GobEncode(h, input).err]

\* copyObj(input, output): the heap and the error afterwards
CopyObj(h, input, output) ==
    LET e == GobEncode(h, input)
    IN IF e.err # "" THEN [heap |-> h, err |-> e.err]
       ELSE [heap |-> GobDecode(h, e.msg, output), err |-> ""]

\* (dc *DomainConfig) Copy() and (r *RecordConfig) Copy(): a zero object is
\* allocated, copyObj fills it, and both the object and the error are returned
CopyOf(h, a) ==
    LET zero == IF h[a].kind = "dc" THEN ZeroDomainConfig ELSE ZeroRecordConfig
        res == CopyObj(Append(h, zero), a, Len(h) + 1)
    IN [heap |-> res.heap, addr |-> Len(h) + 1, err |-> res.err]

-----------------------------------------------------------------------------
(* The copy scenario: an object is copied, then the caller goes on         *)
(* changing the source and, when Copy returned no error, the copy.         *)

NilMap == [sent |-> FALSE, kv |-> {}]

PlainRecord ==
    [kind |-> "rec", Type |-> "A", Name |-> "www", Target |-> "1.2.3.4", TTL |-> 300,
     Metadata |-> NilMap, NameFQDN |-> "www.example.com", Priority |-> 0,
     Original |-> "nil"]

MailRecord ==
    [kind |-> "rec", Type |-> "MX", Name |-> "@", Target |-> "mail.example.com.",
     TTL |-> 0, Metadata |-> [sent |-> TRUE, kv |-> {<<"k", "v">>}],
     NameFQDN |-> "example.com", Priority |-> 10, Original |-> "nil"]

\* a record fetched from a provider, with the provider's object attached
FetchedRecord == [PlainRecord EXCEPT !.Original = "provider"]

NameserverInput == [kind |-> "ns", Name |-> "ns1.example.com", Target |-> "10.0.0.1"]

DomainInputs ==
    {[kind |-> "dc", Name |-> "example.com", Registrar |-> "reg",
      DNSProviders |-> dp, Metadata |-> md,
      Records |-> [sent |-> Len(rs) > 0, elems |-> rs],
      Nameservers |-> ns, KeepUnknown |-> ku] :
        dp \in {NilMap, [sent |-> TRUE, kv |-> {<<"p", 1>>}]},
        md \in {NilMap, [sent |-> TRUE, kv |-> {<<"k", "v">>}]},
        rs \in UNION {[1..n -> {MailRecord, FetchedRecord}] : n \in 0..MaxDomainRecs},
        ns \in {[sent |-> TRUE, elems |-> <<>>], [sent |-> TRUE, elems |-> <<NameserverInput>>]},
        ku \in BOOLEAN}

\* the heap holding the domain d at address 1
DomainHeap(d) ==
    LET h == DecodeDomain(<<ZeroDomainConfig>>, d, 1)
        es == ElemsOf(h, h[1].Records)
    IN [a \in 1..Len(h) |->
          IF \E k \in 1..Len(es) : es[k] = a
          THEN [h[a] EXCEPT !.Original =
                  d.Records.elems[CHOOSE k \in 1..Len(es) : es[k] = a].Original]
          ELSE h[a]]

\* the heap holding the record d at address 1
RecordHeap(d) ==
    LET h == DecodeRecord(<<ZeroRecordConfig>>, d, 1)
    IN [h EXCEPT ![1].Original = d.Original]

InitCopy ==
    /\ pc = "copy"
    /\ heap \in {DomainHeap(d) : d \in DomainInputs}
                \cup {RecordHeap(d) : d \in {PlainRecord, MailRecord, FetchedRecord}}
    /\ src = 1 /\ cpy = 0 /\ cerr = "none"
    /\ steps = 0 /\ last = "none"
    /\ IdleCodec /\ IdleGroup /\ IdleIP

\* a caller runs src.Copy()
Copy ==
    /\ pc = "copy"
    /\ LET res == CopyOf(heap, src)
       IN /\ heap' = res.heap
          /\ cpy' = res.addr
          /\ cerr' = res.err
    /\ pc' = "copied"
    /\ UNCHANGED <<src, steps, last>>
    /\ UNCHANGED <<foldCase, codecVars, groupVars, ipVars>>

\* the objects the caller goes on using
Holders == IF cerr = "" THEN {"src", "cpy"} ELSE {"src"}

Held(x) == IF x = "src" THEN src ELSE cpy

\* a step of the caller that changes the object x to the heap h
Mutated(x, h) ==
    /\ heap' = h
    /\ steps' = steps + 1
    /\ last' = x
    /\ UNCHANGED <<pc, src, cpy, cerr>>
    /\ UNCHANGED <<foldCase, codecVars, groupVars, ipVars>>

MayMutate == pc = "copied" /\ steps < MaxSteps

\* the heap after mp[key] = val for the map field fld of the struct at a;
\* a nil map is made first
MapPut(h, a, fld, key, val) ==
    IF h[a][fld] = 0
    THEN [Append(h, [kind |-> "map", kv |-> {<<key, val>>}]) EXCEPT ![a][fld] = Len(h) + 1]
    ELSE [h EXCEPT ![h[a][fld]].kv = {e \in @ : e[1] # key} \cup {<<key, val>>}]

\* x.Name = "changed"
SetName ==
    /\ MayMutate
    /\ \E x \in Holders : Mutated(x, [heap EXCEPT ![Held(x)].Name = "changed"])

\* x.Metadata["new"] = "x"
PutMetadata ==
    /\ MayMutate
    /\ \E x \in Holders : Mutated(x, MapPut(heap, Held(x), "Metadata", "new", "x"))

\* delete(x.Metadata, "k")
DeleteMetadata ==
    /\ MayMutate
    /\ \E x \in Holders :
          /\ heap[Held(x)].Metadata # 0
          /\ Mutated(x, [heap EXCEPT ![heap[Held(x)].Metadata].kv = {e \in @ : e[1] # "k"}])

\* x.DNSProviders["p"] = 2
PutProvider ==
    /\ MayMutate
    /\ \E x \in Holders :
          /\ heap[Held(x)].kind = "dc"
          /\ Mutated(x, MapPut(heap, Held(x), "DNSProviders", "p", 2))

\* x.Records = append(x.Records, &RecordConfig{...}) into a new array
AppendRecord ==
    /\ MayMutate
    /\ \E x \in Holders :
          /\ heap[Held(x)].kind = "dc"
          /\ Len(ElemsOf(heap, heap[Held(x)].Records)) <= MaxDomainRecs
          /\ LET h1 == DecodeElem(heap, PlainRecord)
                 arr == [kind |-> "arr",
                         elems |-> Append(ElemsOf(heap, heap[Held(x)].Records), Len(heap) + 1)]
             IN Mutated(x, [Append(h1, arr) EXCEPT ![Held(x)].Records = Len(h1) + 1])

\* x.Records[k].Target = "changed"
EditRecord ==
    /\ MayMutate
    /\ \E x \in Holders :
          /\ heap[Held(x)].kind = "dc"
          /\ \E k \in 1..Len(ElemsOf(heap, heap[Held(x)].Records)) :
                Mutated(x, [heap EXCEPT
                              ![ElemsOf(heap, heap[Held(x)].Records)[k]].Target = "changed"])

\* x.Records[k].Metadata["new"] = "x"
EditRecordMetadata ==
    /\ MayMutate
    /\ \E x \in Holders :
          /\ heap[Held(x)].kind = "dc"
          /\ \E k \in 1..Len(ElemsOf(heap, heap[Held(x)].Records)) :
                Mutated(x, MapPut(heap, ElemsOf(heap, heap[Held(x)].Records)[k],
                                  "Metadata", "new", "x"))

\* x.Nameservers[k].Name = "changed"
EditNameserver ==
    /\ MayMutate
    /\ \E x \in Holders :
          /\ heap[Held(x)].kind = "dc"
          /\ \E k \in 1..Len(ElemsOf(heap, heap[Held(x)].Nameservers)) :
                Mutated(x, [heap EXCEPT
                              ![ElemsOf(heap, heap[Held(x)].Nameservers)[k]].Name = "changed"])

NextCopy ==
    \/ Copy
    \/ SetName
    \/ PutMetadata
    \/ DeleteMetadata
    \/ PutProvider
    \/ AppendRecord
    \/ EditRecord
    \/ EditRecordMetadata
    \/ EditNameserver

SpecCopy == InitCopy /\ [][NextCopy]_vars

-----------------------------------------------------------------------------
(* Claims about Copy, checked under SpecCopy.                              *)

Copied == pc = "copied" /\ cerr = ""

CopyFailed == pc = "copied" /\ cerr # ""

\* C3: after a successful Copy, a step that mutates the copy leaves the
\* value of the source unchanged, and a step that mutates the source leaves
\* the value of the copy unchanged.
C3_CopyIndependent ==
    [][(Copied /\ steps' = steps + 1) =>
          /\ last' = "cpy" => Value(heap', src) = Value(heap, src)
          /\ last' = "src" => Value(heap', cpy) = Value(heap, cpy)]_vars

C3_Witness ==
    /\ Copied /\ steps = 2 /\ last = "cpy" /\ heap[src].kind = "dc"
    /\ Len(Value(heap, src).Records) = 2
    /\ Value(heap, src).Metadata = {<<"k", "v">>}
    /\ Value(heap, cpy).Metadata = {<<"k", "v">>, <<"new", "x">>}
    /\ Value(heap, cpy).Records[1].Target = "changed"
    /\ Value(heap, src).Records[1].Target = "mail.example.com."

\* C4 as stated: when Copy fails, no object is returned with the error.
C4_NoObjectWithError == CopyFailed => cpy = 0

\* C4 as amended: when Copy fails, the object returned with the error is the
\* zero value of its type: none of the source has been copied into it, and
\* nothing else has been allocated for it.
C4_NothingCopiedOnFailure ==
    CopyFailed =>
        /\ cpy # 0 /\ cpy # src
        /\ heap[cpy] = (IF heap[src].kind = "dc" THEN ZeroDomainConfig
                        ELSE ZeroRecordConfig)
        /\ steps = 0 => Len(heap) = cpy

C4_Witness ==
    /\ CopyFailed /\ heap[src].kind = "dc" /\ heap[cpy] = ZeroDomainConfig
    /\ Len(Value(heap, src).Records) = 2
    /\ Value(heap, src).Records[2].Original = "provider"

\* C5: the object a successful Copy returns equals the source field by
\* field: Name, Registrar, DNSProviders, Metadata, Nameservers, KeepUnknown,
\* and the Records in order, each with its Type, Name, NameFQDN, Target, TTL,
\* Priority and Metadata.
C5_CopyEqualsSource ==
    (Copied /\ steps = 0) =>
        /\ cpy # src
        /\ heap[cpy].kind = heap[src].kind
        /\ \A f \in DOMAIN Value(heap, src) : Value(heap, cpy)[f] = Value(heap, src)[f]

C5_Witness ==
    /\ Copied /\ steps = 0 /\ heap[src].kind = "dc"
    /\ Value(heap, cpy).KeepUnknown
    /\ Value(heap, cpy).DNSProviders = {<<"p", 1>>}
    /\ Len(Value(heap, cpy).Records) = 2
    /\ Value(heap, cpy).Records[1].NameFQDN = "example.com"
    /\ Value(heap, cpy).Records[1].Priority = 10
    /\ Len(Value(heap, cpy).Nameservers) = 1

====
